---------------------------- MODULE Spec2Model ----------------------------
(***************************************************************************)
(* The receipt-to-draft endpoint POST /api/expenses/parse.  The source     *)
(* holds three revisions of its route handler:                             *)
(*   r000  src/unnamed/part_000  fetch, output_text only, id guardrail     *)
(*   r001  src/unnamed/part_001  OpenAI client, normalizeDraft/clampAmount *)
(*   r002  src/unnamed/part_002  fetch, extractResponseText, id guardrail  *)
(* One call is followed from the request to the response; the only         *)
(* suspension point that matters is the round trip to the provider.        *)
(*                                                                         *)
(* JavaScript values are records [t, n, s, a]: t is the typeof-like tag,   *)
(* n a number in tenths of a unit (so 4505 is 450.5), s a string (for a    *)
(* number: "" when finite, "Infinity" when not), a the items of an array.  *)
(***************************************************************************)
EXTENDS Integers, Sequences, FiniteSets, TLC

VARIABLES rev, apiKey, pc, body, outbound, reply, resp, ran, modelText,
          page, scan, expenses, calls, listPage, loads, deletes

(* the state of the endpoint *)
routeVars == <<rev, apiKey, pc, body, outbound, reply, resp, ran, modelText>>

(* the state of the new-expense page in the browser, and the expenses table *)
uiVars == <<page, scan, expenses>>

(* two invocations of the endpoint that run at the same time *)
pairVars == <<calls>>

(* the state of the expenses list page, its loads and its deletes in flight *)
listVars == <<listPage, loads, deletes>>

(* what a step of the one call followed leaves alone *)
offRoute == <<page, scan, expenses, calls, listPage, loads, deletes>>

(* what a step of the new-expense page leaves alone *)
offPage == <<rev, apiKey, pc, body, outbound, reply, resp, ran, modelText,
             calls, listPage, loads, deletes>>

vars == <<rev, apiKey, pc, body, outbound, reply, resp, ran, modelText,
          page, scan, expenses, calls, listPage, loads, deletes>>

(* Longest warnings array the model is let to return. *)
MaxModelWarnings == 1

(* The cap of clampAmount, in whole units. *)
AmountCap == 500000

(* How much of a text that is not JSON the error message of part_002 echoes. *)
EchoLimit == 300

(* The retries of the OpenAI client of part_001, which is built without a
   maxRetries option and so keeps the library's default. *)
ClientMaxRetries == 2

Revisions == {"r000", "r001", "r002"}

-----------------------------------------------------------------------------
(* JavaScript values *)

Undefined == [t |-> "undefined", n |-> 0, s |-> "", a |-> <<>>]
Null == [t |-> "null", n |-> 0, s |-> "", a |-> <<>>]
Str(x) == [t |-> "string", n |-> 0, s |-> x, a |-> <<>>]
Num(k) == [t |-> "number", n |-> k, s |-> "", a |-> <<>>]
PosInf == [t |-> "number", n |-> 0, s |-> "Infinity", a |-> <<>>]
Arr(items) == [t |-> "array", n |-> 0, s |-> "", a |-> items]

(* Number.isFinite *)
IsFinite(v) == v.t = "number" /\ v.s = ""

(* JavaScript truthiness of a value *)
Truthy(v) ==
  CASE v.t = "undefined" -> FALSE
    [] v.t = "null" -> FALSE
    [] v.t = "string" -> v.s # ""
    [] v.t = "number" -> ~(IsFinite(v) /\ v.n = 0)
    [] OTHER -> TRUE

Digit == {"0", "1", "2", "3", "4", "5", "6", "7", "8", "9"}
Whitespace == {" ", "\n", "\t"}

DigitOf(d) ==
  CASE d = 0 -> "0" [] d = 1 -> "1" [] d = 2 -> "2" [] d = 3 -> "3"
    [] d = 4 -> "4" [] d = 5 -> "5" [] d = 6 -> "6" [] d = 7 -> "7"
    [] d = 8 -> "8" [] d = 9 -> "9"

RECURSIVE NatString(_)
NatString(k) ==
  IF k < 10 THEN DigitOf(k) ELSE NatString(k \div 10) \o DigitOf(k % 10)

(* String(n) for a finite number held in tenths *)
NumString(k) ==
  LET m == IF k < 0 THEN 0 - k ELSE k
      whole == NatString(m \div 10)
      frac == IF m % 10 = 0 THEN "" ELSE "." \o DigitOf(m % 10)
  IN (IF k < 0 THEN "-" ELSE "") \o whole \o frac

RECURSIVE JoinStrings(_, _)
JoinStrings(parts, sep) ==
  IF Len(parts) = 0 THEN ""
  ELSE IF Len(parts) = 1 THEN parts[1]
  ELSE parts[1] \o sep \o JoinStrings(Tail(parts), sep)

(* String(v), the global conversion function *)
String(v) ==
  CASE v.t = "string" -> v.s
    [] v.t = "number" -> IF IsFinite(v) THEN NumString(v.n) ELSE v.s
    [] v.t = "null" -> "null"
    [] v.t = "undefined" -> "undefined"
    [] v.t = "array" ->
         JoinStrings([i \in 1..Len(v.a) |->
            CASE v.a[i].t = "string" -> v.a[i].s
              [] v.a[i].t = "number" ->
                   IF IsFinite(v.a[i]) THEN NumString(v.a[i].n) ELSE v.a[i].s
              [] OTHER -> ""], ",")

(* s.slice(0, n) *)
slice(s, n) == SubSeq(s, 1, IF Len(s) < n THEN Len(s) ELSE n)

(* String.prototype.startsWith *)
startsWith(s, p) == Len(s) >= Len(p) /\ SubSeq(s, 1, Len(p)) = p

RECURSIVE trimStart(_)
trimStart(s) ==
  IF Len(s) > 0 /\ SubSeq(s, 1, 1) \in Whitespace
  THEN trimStart(SubSeq(s, 2, Len(s))) ELSE s

RECURSIVE trimEnd(_)
trimEnd(s) ==
  IF Len(s) > 0 /\ SubSeq(s, Len(s), Len(s)) \in Whitespace
  THEN trimEnd(SubSeq(s, 1, Len(s) - 1)) ELSE s

(* String.prototype.trim *)
trim(s) == trimEnd(trimStart(s))

-----------------------------------------------------------------------------
(* Normalization: part_001 *)

(* /^\d{4}-\d{2}-\d{2}$/.test(s) *)
isISODate(s) ==
  /\ Len(s) = 10
  /\ \A i \in {1, 2, 3, 4, 6, 7, 9, 10} : SubSeq(s, i, i) \in Digit
  /\ SubSeq(s, 5, 5) = "-"
  /\ SubSeq(s, 8, 8) = "-"

(* Math.round of a number in tenths: nearest whole, ties upwards *)
MathRound(k) == ((k + 5) \div 10) * 10

clampAmount(v) ==
  IF ~IsFinite(v) THEN Null
  ELSE IF v.n < 0 THEN Null
  ELSE IF v.n > AmountCap * 10 THEN Null
  ELSE Num(MathRound(v.n))

AmountWarning == "Amount looked invalid/out of range; please verify."
DateWarning == "Date wasn't in YYYY-MM-DD format; please verify."

ConfidenceLevels == {"high", "medium", "low"}

(* a slip: any string is taken as a confidence *)
NormalConfidenceAnyString(v) ==
  IF v.t = "string" THEN v.s ELSE "low"

(* x.confidence === "high" || ... ? x.confidence : "low" *)
NormalConfidence(v) ==
  IF v.t = "string" /\ v.s \in ConfidenceLevels THEN v.s ELSE "low"

IsStringValue(v) == v.t = "string"

normalizeDraft(x) ==
  LET amountRaw == IF x.amount.t = "number" THEN x.amount ELSE Null
      amount == IF amountRaw = Null THEN Null ELSE clampAmount(amountRaw)
      w1 == IF amountRaw # Null /\ amount = Null THEN <<AmountWarning>> ELSE <<>>
      dateRaw == IF x.expense_date.t = "string" THEN x.expense_date ELSE Null
      expense_date == IF Truthy(dateRaw) /\ isISODate(dateRaw.s) THEN dateRaw ELSE Null
      w2 == IF Truthy(dateRaw) /\ ~Truthy(expense_date) THEN <<DateWarning>> ELSE <<>>
      description ==
        IF x.description.t = "string"
        THEN (IF trim(x.description.s) # "" THEN Str(trim(x.description.s)) ELSE Null)
        ELSE Null
      kept == IF x.warnings.t = "array" THEN SelectSeq(x.warnings.a, IsStringValue) ELSE <<>>
      w == [i \in 1..Len(kept) |-> kept[i].s]
  IN [amount |-> amount,
      expense_date |-> expense_date,
      description |-> description,
      category_id |-> IF x.category_id.t = "string" THEN x.category_id ELSE Null,
      account_id |-> IF x.account_id.t = "string" THEN x.account_id ELSE Null,
      confidence |-> NormalConfidence(x.confidence),
      warnings |-> w \o w1 \o w2]

-----------------------------------------------------------------------------
(* Normalization and guardrail: part_000 and part_002 *)

(* The draft literal of POST: a field is kept when it has the right type *)
BuildDraft(parsed) ==
  [amount |-> IF parsed.amount.t = "number" THEN parsed.amount ELSE Null,
   expense_date |-> IF parsed.expense_date.t = "string" THEN parsed.expense_date ELSE Null,
   description |-> IF parsed.description.t = "string" THEN parsed.description ELSE Null,
   category_id |-> IF parsed.category_id.t = "string" THEN parsed.category_id ELSE Null,
   account_id |-> IF parsed.account_id.t = "string" THEN parsed.account_id ELSE Null,
   confidence |-> NormalConfidence(parsed.confidence),
   warnings |-> IF parsed.warnings.t = "array"
                THEN [i \in 1..Len(parsed.warnings.a) |-> String(parsed.warnings.a[i])]
                ELSE <<>>]

CategoryWarning000 == "Model suggested a category_id that is not in the allowed list; set to null."
AccountWarning000 == "Model suggested an account_id that is not in the allowed list; set to null."
CategoryWarning002 == "Model suggested a category_id not in allowed list; set to null."
AccountWarning002 == "Model suggested an account_id not in allowed list; set to null."

(* new Set(list.map((c) => c.id)) *)
IdSet(list) == {list[i].id : i \in 1..Len(list)}

(* a slip: the guardrail sets the confidence to medium instead of low *)
GuardCategoryToMedium(draft, validCatIds, msg) ==
  IF Truthy(draft.category_id) /\ draft.category_id.s \notin validCatIds
  THEN [draft EXCEPT !.warnings = Append(@, msg),
                     !.category_id = Null,
                     !.confidence = "medium"]
  ELSE draft

(* if (draft.category_id && !validCatIds.has(draft.category_id)) { ... } *)
GuardCategory(draft, validCatIds, msg) ==
  IF Truthy(draft.category_id) /\ draft.category_id.s \notin validCatIds
  THEN [draft EXCEPT !.warnings = Append(@, msg),
                     !.category_id = Null,
                     !.confidence = "low"]
  ELSE draft

(* a slip: the test for a present account_id is left out *)
GuardAccountOfAbsent(draft, validAccIds, msg) ==
  IF draft.account_id.s \notin validAccIds
  THEN [draft EXCEPT !.warnings = Append(@, msg),
                     !.account_id = Null,
                     !.confidence = "low"]
  ELSE draft

(* if (draft.account_id && !validAccIds.has(draft.account_id)) { ... } *)
GuardAccount(draft, validAccIds, msg) ==
  IF Truthy(draft.account_id) /\ draft.account_id.s \notin validAccIds
  THEN [draft EXCEPT !.warnings = Append(@, msg),
                     !.account_id = Null,
                     !.confidence = "low"]
  ELSE draft

Guardrail(draft, categories, accounts, catMsg, accMsg) ==
  GuardAccount(GuardCategory(draft, IdSet(categories), catMsg), IdSet(accounts), accMsg)

(* Array.isArray(body.categories) ? body.categories : [] *)
ArrayOrEmpty(list) == IF list.t = "array" THEN list.items ELSE <<>>

(* part_000 lines 118-145: the draft literal, then the guardrail *)
Normalize000(parsed, b) ==
  Guardrail(BuildDraft(parsed), ArrayOrEmpty(b.categories), ArrayOrEmpty(b.accounts),
            CategoryWarning000, AccountWarning000)

(* part_002 lines 149-176: the draft literal, then the guardrail *)
Normalize002(parsed, b) ==
  Guardrail(BuildDraft(parsed), ArrayOrEmpty(b.categories), ArrayOrEmpty(b.accounts),
            CategoryWarning002, AccountWarning002)

-----------------------------------------------------------------------------
(* Reading the provider's answer *)

(* typeof v === "object" && v !== null, on the parsed JSON kinds *)
isRecord(kind) == kind \in {"object", "array"}

RECURSIVE FlattenContent(_)
FlattenContent(out) ==
  IF Len(out) = 0 THEN <<>> ELSE out[1].content \o FlattenContent(Tail(out))

IsTextBlock(c) ==
  /\ c.type \in {"output_text", "summary_text"}
  /\ c.text.t = "string"
  /\ trim(c.text.s) # ""

(* part_002: output_text when non-blank, else the text blocks joined by \n.
   Null when nothing readable is found. *)
extractResponseText(data) ==
  IF ~data.rec THEN Null
  ELSE IF data.output_text.t = "string" /\ trim(data.output_text.s) # ""
       THEN Str(trim(data.output_text.s))
  ELSE IF ~data.outputIsArray THEN Null
  ELSE LET blocks == SelectSeq(FlattenContent(data.output), IsTextBlock)
           parts == [i \in 1..Len(blocks) |-> trim(blocks[i].text.s)]
           joined == trim(JoinStrings(parts, "\n"))
       IN IF joined # "" THEN Str(joined) ELSE Null

(* part_000: output_text when it is a string, else null *)
outputText000(data) ==
  IF data.output_text.t = "string" THEN data.output_text ELSE Null

(* The text "{draft}" stands for the JSON text of the object the model wrote;
   the other texts are literal. *)
DraftText == "{draft}"

AbsentFields ==
  [amount |-> Undefined, expense_date |-> Undefined, description |-> Undefined,
   category_id |-> Undefined, account_id |-> Undefined, confidence |-> Undefined,
   warnings |-> Undefined]

(* JSON.parse: ok is FALSE when it throws; fields are the properties that
   reading parsed.<name> gives. *)
JSONparse(text, obj) ==
  LET t == trim(text)
  IN CASE t = DraftText -> [ok |-> TRUE, kind |-> "object", fields |-> obj]
       [] t = "[1]" -> [ok |-> TRUE, kind |-> "array", fields |-> AbsentFields]
       [] t = "null" -> [ok |-> TRUE, kind |-> "null", fields |-> AbsentFields]
       [] t = "42" -> [ok |-> TRUE, kind |-> "number", fields |-> AbsentFields]
       [] t = "\"paid\"" -> [ok |-> TRUE, kind |-> "string", fields |-> AbsentFields]
       [] t = "true" -> [ok |-> TRUE, kind |-> "boolean", fields |-> AbsentFields]
       [] OTHER -> [ok |-> FALSE, kind |-> "none", fields |-> AbsentFields]

-----------------------------------------------------------------------------
(* Responses *)

NoDraft ==
  [amount |-> Null, expense_date |-> Null, description |-> Null,
   category_id |-> Null, account_id |-> Null, confidence |-> "", warnings |-> <<>>]

NoResponse == [status |-> 0, error |-> "", raw |-> "", hasDraft |-> FALSE, draft |-> NoDraft]

(* jsonError(message, status = 400) *)
jsonError(message, status) ==
  [status |-> status, error |-> message, raw |-> "", hasDraft |-> FALSE, draft |-> NoDraft]

(* JSON.stringify of the draft: a number that is not finite is written null *)
Serialize(draft) ==
  [draft EXCEPT !.amount = IF @.t = "number" /\ ~IsFinite(@) THEN Null ELSE @]

(* NextResponse.json({ draft }) *)
jsonDraft(draft) ==
  [status |-> 200, error |-> "", raw |-> "", hasDraft |-> TRUE, draft |-> Serialize(draft)]

-----------------------------------------------------------------------------
(* Inputs: request bodies *)

ImagePrefix == "data:image/"
ValidImage == "data:image/png;base64,AAAA"

Cat(id, name) == [id |-> id, name |-> name]
Acc(id, name, type) == [id |-> id, name |-> name, type |-> type]

NoList == [t |-> "undefined", items |-> <<>>]
NotAList == [t |-> "string", items |-> <<>>]
List(items) == [t |-> "array", items |-> items]

SomeCategories == List(<<Cat("c1", "Food"), Cat("c2", "Travel")>>)
SomeAccounts == List(<<Acc("a1", "Cash", "cash")>>)

CategoryInputs == {NoList, NotAList, SomeCategories}
AccountInputs == {NoList, SomeAccounts}

Body(img, cats, accs) ==
  [json |-> TRUE, rec |-> TRUE, imageDataUrl |-> img, categories |-> cats, accounts |-> accs]

(* a body that req.json() cannot parse *)
UnparsableBody == [Body(Undefined, NoList, NoList) EXCEPT !.json = FALSE, !.rec = FALSE]
(* the JSON value null *)
NullBody == [Body(Undefined, NoList, NoList) EXCEPT !.rec = FALSE]

BadImages ==
  {Undefined, Null, Num(50), Str(""), Str("https://x.test/r.png"),
   Str("data:text/plain,hi"), Arr(<<Str(ValidImage)>>)}

Bodies ==
  {UnparsableBody, NullBody}
    \cup {Body(img, SomeCategories, SomeAccounts) : img \in BadImages}
    \cup {Body(Str(ValidImage), cats, accs) : cats \in CategoryInputs, accs \in AccountInputs}

NoBody == NullBody

-----------------------------------------------------------------------------
(* Inputs: what the provider and the model answer *)

Amounts == {Str("450"), Num(-50), Num(4505), Num(5000000), Num(5000004), PosInf}
Dates == {Num(20240115), Str("2024-01-15"), Str("15/01/2024")}
Descriptions == {Null, Str("  "), Str(" Cafe lunch ")}
CategoryIds == {Null, Num(90), Str(""), Str("c1"), Str("cat-9")}
AccountIds == {Null, Str(""), Str("a1"), Str("acc-9")}
Confidences == {Undefined, Str("high"), Str("medium"), Str("low"), Str("certain")}
WarningItems == {Str("blurry"), Num(30)}

SeqsUpTo(S, n) == UNION {[1..k -> S] : k \in 0..n}

ModelWarnings == {Str("none")} \cup {Arr(w) : w \in SeqsUpTo(WarningItems, MaxModelWarnings)}

(* objects that vary the value fields, with ids that pass any guardrail *)
ValueObjects ==
  [amount : Amounts, expense_date : Dates, description : Descriptions,
   category_id : {Str("c1")}, account_id : {Null}, confidence : Confidences,
   warnings : ModelWarnings]

(* objects that vary the ids, beside a good and a bad amount *)
IdObjects ==
  [amount : {Num(4505), Num(-50)}, expense_date : {Str("2024-01-15")},
   description : {Null}, category_id : CategoryIds, account_id : AccountIds,
   confidence : Confidences, warnings : ModelWarnings]

ModelObjects == ValueObjects \cup IdObjects

Block(type, text) == [type |-> type, text |-> text]
Item(content) == [content |-> content]

Data(keys, outputText, outputIsArray, output) ==
  [rec |-> TRUE, keys |-> keys, output_text |-> outputText,
   outputIsArray |-> outputIsArray, output |-> output]

FlatData(text) == Data(<<"id", "output_text">>, Str(text), FALSE, <<>>)

(* the draft text split over two blocks would not be JSON; it comes whole in
   one block, after a block of another type *)
BlockData ==
  Data(<<"id", "output">>, Undefined, TRUE,
       <<Item(<<Block("reasoning", Str("thinking"))>>),
         Item(<<Block("output_text", Str(" " \o DraftText \o " "))>>)>>)

NotAnObjectData == [Data(<<>>, Undefined, FALSE, <<>>) EXCEPT !.rec = FALSE]
NoTextData == Data(<<"id", "status">>, Undefined, FALSE, <<>>)

(* what the provider puts in the top-level fields of its answer *)
FieldValue(key) ==
  CASE key = "id" -> "resp_68a1"
    [] key = "status" -> "incomplete"
    [] key = "output" -> "[object Object]"
    [] OTHER -> ""

(* blocks of several types over several items, some blank; no JSON in them *)
MixedBlockData ==
  Data(<<"id", "output">>, Str("  "), TRUE,
       <<Item(<<Block("output_text", Str(" Total ")), Block("refusal", Str("no"))>>),
         Item(<<>>),
         Item(<<Block("summary_text", Str("450 INR")), Block("output_text", Str("  ")),
                Block("output_text", Num(70)), Block("output_text", Str("paid"))>>)>>)

(* an answer whose blocks carry nothing readable *)
BlankBlockData ==
  Data(<<"id", "status", "output">>, Undefined, TRUE,
       <<Item(<<Block("reasoning", Str("thinking")), Block("output_text", Str(" "))>>)>>)

RECURSIVE Repeat(_, _)
Repeat(s, n) == IF n = 0 THEN "" ELSE s \o Repeat(s, n - 1)

(* a text that is not JSON and is longer than the echo limit *)
LongText == "Receipt: " \o Repeat("0123456789", 30) \o " END"

OkReply(data, obj) ==
  [kind |-> "ok", status |-> 200, errText |-> "", data |-> data, obj |-> obj]

NoReply ==
  [kind |-> "none", status |-> 0, errText |-> "", data |-> NotAnObjectData, obj |-> AbsentFields]

FailedReplies ==
  {[NoReply EXCEPT !.kind = "throw", !.errText = "fetch failed"],
   [NoReply EXCEPT !.kind = "http_error", !.status = 429, !.errText = "rate limited"],
   [NoReply EXCEPT !.kind = "http_error", !.status = 400, !.errText = "invalid image"]}

OddReplies ==
  {OkReply(d, AbsentFields) :
     d \in {NotAnObjectData, NoTextData, MixedBlockData, BlankBlockData,
            FlatData(""), FlatData("  "), FlatData("Sorry, no receipt"), FlatData(LongText),
            FlatData("[1]"), FlatData("null"), FlatData("42"), FlatData("\"paid\""),
            FlatData("true")}}

DraftReplies ==
  {OkReply(FlatData(DraftText), obj) : obj \in ModelObjects}
    \cup {OkReply(BlockData, obj) :
            obj \in {o \in ModelObjects : o.warnings = Arr(<<>>) /\ o.description = Null}}

Replies == FailedReplies \cup OddReplies \cup DraftReplies

-----------------------------------------------------------------------------
(* The handlers.  Each runs in two steps, split at the await of the provider
   call; a step yields the stages it ran and, when the call ends there, the
   response. *)

Ended(stages, response) ==
  [ran |-> stages, done |-> TRUE, resp |-> response, text |-> Null]
Goes(stages) ==
  [ran |-> stages, done |-> FALSE, resp |-> NoResponse, text |-> Null]

(* the step, with the text it read from the provider's answer *)
Read(text, step) == [step EXCEPT !.text = text]

(* a slip: the catch block forgets { status: 500 } *)
CaughtOk(message) == jsonError(message, 200)

(* the catch block: { error: e.message }, status 500 *)
Caught(message) == jsonError(message, 500)

MissingKey000 == "Missing OPENAI_API_KEY on server. Add it in Vercel Project -> Settings -> Environment Variables (Production + Preview) and redeploy."
MissingKey002 == "Missing OPENAI_API_KEY on server"

(* part_000 lines 27-92 and part_002 lines 67-123 *)
StartFetch(key, b, keyMessage) ==
  IF ~key THEN Ended(<<"credential">>, jsonError(keyMessage, 500))
  ELSE IF ~b.json
    THEN Ended(<<"credential", "body">>, Caught("Unexpected end of JSON input"))
  ELSE IF ~b.rec
    THEN Ended(<<"credential", "body">>, jsonError("Invalid JSON body", 400))
  ELSE LET imageDataUrl == IF b.imageDataUrl.t = "string" THEN b.imageDataUrl ELSE Null
       IN IF ~Truthy(imageDataUrl)
            THEN Ended(<<"credential", "body", "validate">>,
                       jsonError("imageDataUrl is required", 400))
          ELSE IF ~startsWith(imageDataUrl.s, ImagePrefix)
            THEN Ended(<<"credential", "body", "validate">>,
                       jsonError("imageDataUrl must be a data:image/* URL", 400))
          ELSE Goes(<<"credential", "body", "validate", "prompt", "fetch">>)

(* part_001 lines 65-130 *)
StartCreate(key, b) ==
  IF ~b.json THEN Ended(<<"body">>, Caught("Unexpected end of JSON input"))
  ELSE LET imageDataUrl ==
             IF b.rec /\ Truthy(b.imageDataUrl) THEN String(b.imageDataUrl) ELSE ""
       IN IF ~startsWith(imageDataUrl, ImagePrefix)
            THEN Ended(<<"body", "validate">>,
                       jsonError("Invalid imageDataUrl (expected data:image/...)", 400))
          ELSE IF ~key
            THEN Ended(<<"body", "validate", "credential">>,
                       Caught("The OPENAI_API_KEY environment variable is missing or empty"))
          ELSE IF b.categories.t = "string"
            THEN Ended(<<"body", "validate", "credential", "prompt">>,
                       Caught("categories.map is not a function"))
          ELSE IF b.accounts.t = "string"
            THEN Ended(<<"body", "validate", "credential", "prompt">>,
                       Caught("accounts.map is not a function"))
          ELSE Goes(<<"body", "validate", "credential", "prompt", "fetch">>)

(* a slip: the upstream text is left out of the message *)
upstreamErrorBare(errText) == jsonError("OpenAI error", 500)

(* if (!resp.ok) return jsonError(`OpenAI error: ${errText}`, 500) *)
upstreamError(errText) == jsonError("OpenAI error: " \o errText, 500)

(* part_002 lines 125-178 *)
Finish002(b, r) ==
  IF r.kind = "throw" THEN Ended(<<>>, Caught(r.errText))
  ELSE IF r.kind = "http_error" THEN Ended(<<>>, upstreamError(r.errText))
  ELSE
    LET outputText == extractResponseText(r.data)
        keys == IF r.data.rec THEN JoinStrings(r.data.keys, ", ") ELSE "not-an-object"
        parsed == JSONparse(outputText.s, r.obj)
        sliced == slice(outputText.s, EchoLimit)
        guarded == Normalize002(parsed.fields, b)
    IN Read(outputText,
         IF ~Truthy(outputText)
           THEN Ended(<<"extract">>,
                      jsonError("OpenAI returned no readable text. Response keys: " \o keys, 500))
         ELSE IF ~parsed.ok
           THEN Ended(<<"extract", "parse">>,
                      jsonError("Model did not return valid JSON. Got: " \o sliced, 500))
         ELSE IF ~isRecord(parsed.kind)
           THEN Ended(<<"extract", "parse", "shape">>, jsonError("Draft JSON is invalid", 500))
         ELSE Ended(<<"extract", "parse", "shape", "normalize", "guardrail">>,
                    jsonDraft(guarded)))

(* part_000 lines 94-147 *)
Finish000(b, r) ==
  IF r.kind = "throw" THEN Ended(<<>>, Caught(r.errText))
  ELSE IF r.kind = "http_error" THEN Ended(<<>>, upstreamError(r.errText))
  ELSE
    LET outputText == outputText000(r.data)
        parsed == JSONparse(outputText.s, r.obj)
        guarded == Normalize000(parsed.fields, b)
    IN IF ~r.data.rec
         THEN Ended(<<"extract">>, jsonError("Bad response from OpenAI", 500))
       ELSE Read(outputText,
         IF ~Truthy(outputText)
           THEN Ended(<<"extract">>, jsonError("OpenAI returned no output_text", 500))
         ELSE IF ~parsed.ok
           THEN Ended(<<"extract", "parse">>, jsonError("Model did not return valid JSON", 500))
         ELSE IF ~isRecord(parsed.kind)
           THEN Ended(<<"extract", "parse", "shape">>, jsonError("Draft JSON is invalid", 500))
         ELSE Ended(<<"extract", "parse", "shape", "normalize", "guardrail">>,
                    jsonDraft(guarded)))

(* resp.output_text of the OpenAI client: the field when the answer carries
   it, else the output_text blocks of the answer put together *)
clientOutputText(data) ==
  IF ~data.rec THEN ""
  ELSE IF data.output_text.t = "string" THEN data.output_text.s
  ELSE LET blocks == SelectSeq(FlattenContent(data.output),
                               LAMBDA c : c.type = "output_text" /\ c.text.t = "string")
       IN JoinStrings([i \in 1..Len(blocks) |-> blocks[i].text.s], "")

(* the message of the error the OpenAI client throws for a non-success
   answer: the status, then what the provider said *)
clientErrorMessage(r) ==
  IF r.kind = "http_error" THEN NatString(r.status) \o " " \o r.errText ELSE r.errText

(* the failures the OpenAI client sends the request again for *)
Retryable(r) ==
  \/ r.kind = "throw"
  \/ r.kind = "http_error" /\ (r.status \in {408, 409, 429} \/ r.status >= 500)

(* part_001 lines 132-144; the client throws on a failed or non-success call *)
Finish001(b, r) ==
  IF r.kind \in {"throw", "http_error"} THEN Ended(<<>>, Caught(clientErrorMessage(r)))
  ELSE
    LET raw == clientOutputText(r.data)
        parsed == JSONparse(raw, r.obj)
    IN Read(Str(raw),
         IF ~parsed.ok
           THEN Ended(<<"extract", "parse">>,
                      [jsonError("Model did not return valid JSON", 502) EXCEPT !.raw = raw])
         ELSE Ended(<<"extract", "parse", "normalize">>,
                    jsonDraft(normalizeDraft(parsed.fields))))

-----------------------------------------------------------------------------
(* The new-expense page: src/nextjs/src/app/(app)/expenses/new/page.tsx.
   page holds the state of NewExpensePage, scan the state of ScanReceiptDraft,
   expenses the rows of the expenses table.  Each async handler is split at
   its awaits: loadLists at getUser and the two list queries, onPick at the
   file read and at the answer of the endpoint, onSave at the insert. *)

NaN == [t |-> "number", n |-> 0, s |-> "NaN", a |-> <<>>]

DigitValue(c) == CHOOSE d \in 0..9 : DigitOf(d) = c

IsDigits(s) == Len(s) > 0 /\ \A i \in 1..Len(s) : SubSeq(s, i, i) \in Digit

RECURSIVE NatOf(_)
NatOf(s) ==
  IF Len(s) = 0 THEN 0
  ELSE NatOf(SubSeq(s, 1, Len(s) - 1)) * 10 + DigitValue(SubSeq(s, Len(s), Len(s)))

(* Number(text), for decimal texts of at most one fractional digit: the text
   is trimmed, the empty text is 0, a text that is no numeral is NaN *)
Number(text) ==
  LET t == trim(text)
      neg == startsWith(t, "-")
      u == IF neg \/ startsWith(t, "+") THEN SubSeq(t, 2, Len(t)) ELSE t
      sign == IF neg THEN -1 ELSE 1
      whole == SubSeq(u, 1, Len(u) - 2)
      last == SubSeq(u, Len(u), Len(u))
  IN IF t = "" THEN Num(0)
     ELSE IF u = "Infinity" THEN PosInf
     ELSE IF IsDigits(u) THEN Num(sign * NatOf(u) * 10)
     ELSE IF Len(u) >= 3 /\ SubSeq(u, Len(u) - 1, Len(u) - 1) = "." /\ IsDigits(whole) /\ IsDigits(last)
       THEN Num(sign * (NatOf(whole) * 10 + NatOf(last)))
     ELSE NaN

(* the local date the page computes for its default *)
Today == "2026-11-01"

SignedIn == Str("u1")

(* the rows the list queries return *)
CategoryRows == <<Cat("c1", "Food")>>
AccountRows == <<Acc("a1", "Cash", "cash")>>

NoPayload ==
  [user_id |-> Null, amount |-> Null, expense_date |-> "", description |-> Null,
   category_id |-> Null, account_id |-> ""]

(* useState initial values of NewExpensePage, loadLists about to call getUser *)
Mounted ==
  [view |-> "new", loadPc |-> "getUser", userId |-> Null,
   categories |-> <<>>, accounts |-> <<>>,
   amount |-> "", expenseDate |-> "", description |-> "", categoryId |-> "", accountId |-> "",
   loadingLists |-> TRUE, saving |-> FALSE, error |-> Null,
   savePc |-> "idle", payload |-> NoPayload]

(* useState initial values of ScanReceiptDraft; draft = NoDraft stands for null *)
ScanIdle == [busy |-> FALSE, err |-> Null, draft |-> NoDraft, pc |-> "idle"]

(* what the user types or selects in the form *)
TypedAmounts == {"", "450", "abc"}
TypedDates == {""}
TypedDescriptions == {"", " Lunch "}

(* drafts the endpoint sends: a draft of values, a draft of nulls, a draft
   of empty strings *)
FullDraft ==
  [amount |-> Num(12505), expense_date |-> Str("2024-01-15"), description |-> Str("Cafe lunch"),
   category_id |-> Str("c1"), account_id |-> Str("a1"), confidence |-> "high", warnings |-> <<>>]
NullDraft ==
  [amount |-> Null, expense_date |-> Null, description |-> Null,
   category_id |-> Null, account_id |-> Null, confidence |-> "low",
   warnings |-> <<Str("Amount missing or invalid.")>>]
EmptyDraft ==
  [amount |-> Num(0), expense_date |-> Str(""), description |-> Str(""),
   category_id |-> Str(""), account_id |-> Str("a1"), confidence |-> "medium", warnings |-> <<>>]
SentDrafts == {FullDraft, NullDraft, EmptyDraft}

(* what comes back from fetch("/api/expenses/parse") and res.json() *)
Answer(kind, ok, hasError, error, hasDraftKey, draft) ==
  [kind |-> kind, ok |-> ok, hasError |-> hasError, error |-> error,
   hasDraftKey |-> hasDraftKey, draft |-> draft]

ParseAnswers ==
  {Answer("rejected", FALSE, FALSE, Str("Failed to fetch"), FALSE, NoDraft),
   Answer("not_json", FALSE, FALSE, Str("Unexpected token '<'"), FALSE, NoDraft),
   Answer("json", FALSE, TRUE, Str("imageDataUrl is required"), FALSE, NoDraft),
   Answer("json", FALSE, TRUE, Null, FALSE, NoDraft),
   Answer("json", FALSE, TRUE, Str(""), FALSE, NoDraft),
   Answer("json", FALSE, FALSE, Null, FALSE, NoDraft),
   Answer("json", TRUE, FALSE, Null, FALSE, NoDraft),
   Answer("json", TRUE, FALSE, Null, TRUE, NoDraft)}
    \cup {Answer("json", TRUE, FALSE, Null, TRUE, d) : d \in SentDrafts}

(* lines 108-126 of onPick: the message set by the catch block, or the draft *)
PickOutcome(answer) ==
  IF answer.kind \in {"rejected", "not_json"} THEN [err |-> answer.error, draft |-> NoDraft]
  ELSE IF ~answer.ok
    THEN [err |-> IF answer.hasError /\ answer.error # Null
                    THEN Str(String(answer.error))
                    ELSE Str("Failed to parse receipt"),
          draft |-> NoDraft]
  ELSE LET draftObj == IF answer.hasDraftKey THEN answer.draft ELSE NoDraft
       IN IF draftObj = NoDraft
            THEN [err |-> Str("Parser returned no draft"), draft |-> NoDraft]
          ELSE [err |-> Null, draft |-> draftObj]

(* a slip: every field is set from the draft, a null as the empty text *)
AppliedAll(p, draft) ==
  [p EXCEPT
     !.amount = IF draft.amount # Null /\ IsFinite(draft.amount) THEN String(draft.amount) ELSE "",
     !.expenseDate = IF Truthy(draft.expense_date) THEN draft.expense_date.s ELSE "",
     !.description = IF Truthy(draft.description) THEN draft.description.s ELSE "",
     !.categoryId = IF Truthy(draft.category_id) THEN draft.category_id.s ELSE "",
     !.accountId = IF Truthy(draft.account_id) THEN draft.account_id.s ELSE ""]

(* lines 301-307: the form after onApplyDraft(draft) *)
Applied(p, draft) ==
  [p EXCEPT
     !.amount = IF draft.amount # Null /\ IsFinite(draft.amount) THEN String(draft.amount) ELSE @,
     !.expenseDate = IF Truthy(draft.expense_date) THEN draft.expense_date.s ELSE @,
     !.description = IF Truthy(draft.description) THEN draft.description.s ELSE @,
     !.categoryId = IF Truthy(draft.category_id) THEN draft.category_id.s ELSE @,
     !.accountId = IF Truthy(draft.account_id) THEN draft.account_id.s ELSE @]

(* lines 313-330: the message of the first check of onSave that fails, "" when none *)
SaveRefusal(p) ==
  LET amt == Number(p.amount)
  IN IF ~Truthy(p.userId) THEN "Not logged in. Please sign in again."
     ELSE IF ~IsFinite(amt) \/ amt.n <= 0 THEN "Enter a valid amount."
     ELSE IF p.expenseDate = "" THEN "Select a date."
     ELSE IF p.accountId = "" THEN "Select an account."
     ELSE ""

(* lines 335-342: the row onSave inserts *)
Payload(p) ==
  [user_id |-> p.userId,
   amount |-> Number(p.amount),
   expense_date |-> p.expenseDate,
   description |-> IF trim(p.description) # "" THEN Str(trim(p.description)) ELSE Null,
   category_id |-> IF p.categoryId # "" THEN Str(p.categoryId) ELSE Null,
   account_id |-> p.accountId]

-----------------------------------------------------------------------------
(* The earlier new-expense page, "Add Expense": src/unnamed/part_005 *)

(* Most rows the earlier page is followed through saving. *)
MaxSaved == 1

(* what the user types into the amount box, a text input *)
AddAmounts == {"", "0", "450", "abc", "Infinity"}

(* useState initial values of the earlier page, load about to call getUser *)
AddMounted ==
  [view |-> "add", loadPc |-> "getUser", loading |-> TRUE, saving |-> FALSE,
   error |-> Null, ok |-> Null, categories |-> <<>>, accounts |-> <<>>,
   amount |-> "", description |-> "", categoryId |-> "", accountId |-> "",
   expenseDate |-> Today, savePc |-> "idle", payload |-> NoPayload]

(* lines 93-105: the message of the first check of onSave that fails, "" when
   none; Number.isNaN is true of NaN alone *)
AddRefusal(p) ==
  LET amt == Number(p.amount)
  IN IF p.amount = "" \/ amt = NaN \/ (amt # PosInf /\ amt.n <= 0)
       THEN "Please enter a valid amount (> 0)."
     ELSE IF p.accountId = "" THEN "Please select an account."
     ELSE IF p.expenseDate = "" THEN "Please select a date."
     ELSE ""

(* lines 119-126: the row onSave inserts for the signed-in user *)
AddPayload(p, user) ==
  [user_id |-> user,
   account_id |-> p.accountId,
   category_id |-> IF p.categoryId # "" THEN Str(p.categoryId) ELSE Null,
   amount |-> Number(p.amount),
   description |-> IF p.description # "" THEN Str(p.description) ELSE Null,
   expense_date |-> p.expenseDate]

-----------------------------------------------------------------------------
(* Two invocations of POST at once.  Every name the handler writes is a
   local of its invocation (body, categories, accounts, validCatIds, draft);
   the route modules hold no variable outside the handler. *)

Calls == {1, 2}

(* an invocation slot with no request in it *)
IdleCall ==
  [pc |-> "idle", body |-> NoBody, outbound |-> 0, reply |-> NoReply,
   resp |-> NoResponse, ran |-> <<>>, modelText |-> Null]

NoCalls == [i \in Calls |-> IdleCall]

OtherCategories == List(<<Cat("cat-9", "Rent")>>)
OtherAccounts == List(<<Acc("acc-9", "Card", "credit")>>)

(* requests whose lists differ *)
PairBodies ==
  {Body(Str(ValidImage), SomeCategories, SomeAccounts),
   Body(Str(ValidImage), OtherCategories, OtherAccounts),
   Body(Str("https://x.test/r.png"), SomeCategories, SomeAccounts)}

PairObject(cat, acc) ==
  [amount |-> Num(4505), expense_date |-> Str("2024-01-15"), description |-> Str("Cafe lunch"),
   category_id |-> Str(cat), account_id |-> Str(acc), confidence |-> Str("high"),
   warnings |-> Arr(<<>>)]

(* answers whose ids are in one request's lists and not in the other's *)
PairReplies ==
  {[NoReply EXCEPT !.kind = "http_error", !.status = 429, !.errText = "rate limited"],
   OkReply(FlatData("Sorry, no receipt"), AbsentFields),
   OkReply(FlatData(DraftText), PairObject("c1", "a1")),
   OkReply(FlatData(DraftText), PairObject("cat-9", "acc-9"))}

(* the part of the handler before the provider call, by revision *)
StartOf(r, key, b) ==
  CASE r = "r000" -> StartFetch(key, b, MissingKey000)
    [] r = "r001" -> StartCreate(key, b)
    [] r = "r002" -> StartFetch(key, b, MissingKey002)

(* the part of the handler after the provider call, by revision *)
FinishOf(r, b, answer) ==
  CASE r = "r000" -> Finish000(b, answer)
    [] r = "r001" -> Finish001(b, answer)
    [] r = "r002" -> Finish002(b, answer)

(* a slip: the body is kept in a variable of the module, where the other
   invocation has written its own *)
HeldBodyShared(cs, i) == cs[3 - i].body

(* the body, and so the lists, that invocation i holds in its locals *)
HeldBody(cs, i) == cs[i].body

-----------------------------------------------------------------------------
(* The expenses list page: src/nextjs/src/app/(app)/expenses/page.tsx *)

(* the page is not open *)
ListClosed ==
  [open |-> FALSE, loading |-> TRUE, error |-> Null, range |-> "30",
   expenses |-> <<>>, categoryOptions |-> <<>>, accounts |-> <<>>, openRowId |-> ""]

(* Most loads in flight at once, and most deletes in flight at once. *)
MaxLoads == 2
MaxDeletes == 2

(* the rows of the signed-in user in the expenses table, newest first as the
   query orders them *)
ExpenseRows ==
  <<[id |-> "e1", expense_date |-> "2026-10-20"],
    [id |-> "e2", expense_date |-> "2026-06-01"]>>

RowIds == {ExpenseRows[i].id : i \in 1..Len(ExpenseRows)}

(* the ranges the user picks from the select *)
PickedRanges == {"30", "all"}

(* an ISO date as a number that orders as the text does *)
DateOrder(d) ==
  NatOf(SubSeq(d, 1, 4)) * 10000 + NatOf(SubSeq(d, 6, 7)) * 100 + NatOf(SubSeq(d, 9, 10))

(* lines 67-74, on the day Today *)
isoDaysAgo(days) ==
  CASE days = 7 -> "2026-10-25"
    [] days = 30 -> "2026-10-02"
    [] days = 90 -> "2026-08-03"

(* lines 81-102, on the day Today *)
monthBoundsISO(which) ==
  IF which = "this" THEN [start |-> "2026-11-01", endExclusive |-> "2026-12-01"]
  ELSE [start |-> "2026-10-01", endExclusive |-> "2026-11-01"]

(* lines 307-325 *)
computedBounds(range) ==
  CASE range = "all" -> [mode |-> "all", start |-> "", endExclusive |-> ""]
    [] range = "today" -> [mode |-> "eq", start |-> Today, endExclusive |-> ""]
    [] range = "this_month" ->
         [mode |-> "between", start |-> monthBoundsISO("this").start,
          endExclusive |-> monthBoundsISO("this").endExclusive]
    [] range = "last_month" ->
         [mode |-> "between", start |-> monthBoundsISO("last").start,
          endExclusive |-> monthBoundsISO("last").endExclusive]
    [] OTHER -> [mode |-> "gte", start |-> isoDaysAgo(NatOf(range)), endExclusive |-> ""]

(* lines 374-382: the filter the query puts on expense_date *)
InBounds(date, b) ==
  CASE b.mode = "all" -> TRUE
    [] b.mode = "eq" -> date = b.start
    [] b.mode = "between" ->
         DateOrder(date) >= DateOrder(b.start) /\ DateOrder(date) < DateOrder(b.endExclusive)
    [] b.mode = "gte" -> DateOrder(date) >= DateOrder(b.start)

(* lines 370-384: the rows the expenses query of a load returns from a table
   that is held newest first *)
Queried(range, table) ==
  SelectSeq(table, LAMBDA x : InBounds(x.expense_date, computedBounds(range)))

(* line 441: xs.filter((x) => x.id !== id) *)
Without(xs, id) == SelectSeq(xs, LAMBDA x : x.id # id)

(* a load that has called getUser; latest marks the run of the load effect
   that was started last *)
LoadStarted(range) == [range |-> range, pc |-> "getUser", latest |-> TRUE]

(* lines 293-305 and 327-332: the page is mounted and its first load runs *)
ListMounted == [ListClosed EXCEPT !.open = TRUE]

(* lines 586-600: the rows the page renders, no category chip picked and the
   search box empty; while loading, and while an error is set, it renders
   the text instead of rows *)
Displayed(lp) == IF lp.loading \/ lp.error # Null THEN <<>> ELSE lp.expenses

(* s without its i-th element *)
RemoveAt(s, i) == SubSeq(s, 1, i - 1) \o SubSeq(s, i + 1, Len(s))

(* lines 332-337, 341-346, 349-354, 386-390: a load ends with a message *)
LoadFailed(lp, message) == [lp EXCEPT !.error = Str(message), !.loading = FALSE]

-----------------------------------------------------------------------------
(* Actions *)

Init ==
  /\ rev \in Revisions
  /\ apiKey \in BOOLEAN
  /\ pc = "idle"
  /\ body = NoBody
  /\ outbound = 0
  /\ reply = NoReply
  /\ resp = NoResponse
  /\ ran = <<>>
  /\ modelText = Null
  /\ page = Mounted
  /\ scan = ScanIdle
  /\ expenses = <<>>
  /\ calls = NoCalls
  /\ listPage = ListClosed
  /\ loads = <<>>
  /\ deletes = {}

(* a client posts a body to /api/expenses/parse *)
Request ==
  /\ pc = "idle"
  /\ body' \in Bodies
  /\ pc' = "received"
  /\ UNCHANGED <<rev, apiKey, outbound, reply, resp, ran, modelText>>
  /\ UNCHANGED offRoute

Begin(step) ==
  /\ pc = "received"
  /\ ran' = step.ran
  /\ resp' = step.resp
  /\ pc' = IF step.done THEN "done" ELSE "awaiting"
  /\ outbound' = IF step.done THEN outbound ELSE outbound + 1
  /\ UNCHANGED <<rev, apiKey, body, reply, modelText>>
  /\ UNCHANGED offRoute

Resume(step) ==
  /\ pc = "replied"
  /\ ran' = ran \o step.ran
  /\ resp' = step.resp
  /\ pc' = "done"
  /\ modelText' = step.text
  /\ UNCHANGED <<rev, apiKey, body, reply, outbound>>
  /\ UNCHANGED offRoute

POST000_Start == rev = "r000" /\ Begin(StartFetch(apiKey, body, MissingKey000))
POST001_Start == rev = "r001" /\ Begin(StartCreate(apiKey, body))
POST002_Start == rev = "r002" /\ Begin(StartFetch(apiKey, body, MissingKey002))

(* the provider answers the one request in flight *)
ProviderReply ==
  /\ pc = "awaiting"
  /\ reply' \in Replies
  /\ pc' = "replied"
  /\ UNCHANGED <<rev, apiKey, body, outbound, resp, ran, modelText>>
  /\ UNCHANGED offRoute

POST000_Finish == rev = "r000" /\ Resume(Finish000(body, reply))
POST001_Finish ==
  /\ rev = "r001"
  /\ ~(Retryable(reply) /\ outbound < 1 + ClientMaxRetries)
  /\ Resume(Finish001(body, reply))

(* part_001: the client sends the request again after a failure it retries *)
Client001_Retry ==
  /\ rev = "r001"
  /\ pc = "replied"
  /\ Retryable(reply) /\ outbound < 1 + ClientMaxRetries
  /\ outbound' = outbound + 1
  /\ pc' = "awaiting"
  /\ UNCHANGED <<rev, apiKey, body, reply, resp, ran, modelText>>
  /\ UNCHANGED offRoute
POST002_Finish == rev = "r002" /\ Resume(Finish002(body, reply))

(* the response is sent and the call is over; the server takes the next one *)
Respond ==
  /\ pc = "done"
  /\ pc' = "idle"
  /\ body' = NoBody
  /\ outbound' = 0
  /\ reply' = NoReply
  /\ resp' = NoResponse
  /\ ran' = <<>>
  /\ modelText' = Null
  /\ UNCHANGED <<rev, apiKey>>
  /\ UNCHANGED offRoute

Next ==
  \/ Request
  \/ POST000_Start
  \/ POST001_Start
  \/ POST002_Start
  \/ ProviderReply
  \/ POST000_Finish
  \/ POST001_Finish
  \/ POST002_Finish
  \/ Client001_Retry
  \/ Respond

Spec == Init /\ [][Next]_vars

-----------------------------------------------------------------------------
(* Actions of the new-expense page *)

(* the page is open on a deployment of the endpoint that is between calls *)
PageInit ==
  /\ rev = "r002"
  /\ apiKey = TRUE
  /\ pc = "idle"
  /\ body = NoBody
  /\ outbound = 0
  /\ reply = NoReply
  /\ resp = NoResponse
  /\ ran = <<>>
  /\ modelText = Null
  /\ page = Mounted
  /\ scan = ScanIdle
  /\ expenses = <<>>
  /\ calls = NoCalls
  /\ listPage = ListClosed
  /\ loads = <<>>
  /\ deletes = {}

Shown == page.view = "new"

(* the scanner and the form are rendered only when the lists are loaded *)
FormShown == Shown /\ ~page.loadingLists

(* the page is gone after a navigation: its state and the scanner's are dropped *)
Left(to) == [Mounted EXCEPT !.view = to, !.loadPc = "done"]

(* lines 260-265 *)
loadLists_getUser ==
  /\ Shown /\ page.loadPc = "getUser"
  /\ \E user \in {Null, SignedIn} :
       IF ~Truthy(user)
         THEN page' = Left("login") /\ scan' = ScanIdle
         ELSE page' = [page EXCEPT !.userId = user, !.loadPc = "categories"] /\ scan' = scan
  /\ UNCHANGED expenses
  /\ UNCHANGED offPage

(* lines 267-274 *)
loadLists_categories ==
  /\ Shown /\ page.loadPc = "categories"
  /\ \E failed \in BOOLEAN :
       page' = IF failed
                 THEN [page EXCEPT !.error = Str("Could not load categories: timeout"),
                                   !.loadingLists = FALSE, !.loadPc = "done"]
                 ELSE [page EXCEPT !.categories = CategoryRows, !.loadPc = "accounts"]
  /\ UNCHANGED <<scan, expenses>>
  /\ UNCHANGED offPage

(* lines 276-294; expenseDate is the value the effect closed over, "" *)
loadLists_accounts ==
  /\ Shown /\ page.loadPc = "accounts"
  /\ \E failed \in BOOLEAN :
       page' = IF failed
                 THEN [page EXCEPT !.error = Str("Could not load accounts: timeout"),
                                   !.loadingLists = FALSE, !.loadPc = "done"]
                 ELSE [page EXCEPT !.accounts = AccountRows, !.expenseDate = Today,
                                   !.loadingLists = FALSE, !.loadPc = "done"]
  /\ UNCHANGED <<scan, expenses>>
  /\ UNCHANGED offPage

(* the onChange handlers of the five inputs, lines 380, 391, 401, 411, 427 *)
setAmount ==
  /\ FormShown
  /\ \E v \in TypedAmounts : page' = [page EXCEPT !.amount = v]
  /\ UNCHANGED <<scan, expenses>>
  /\ UNCHANGED offPage

setExpenseDate ==
  /\ FormShown
  /\ \E v \in TypedDates : page' = [page EXCEPT !.expenseDate = v]
  /\ UNCHANGED <<scan, expenses>>
  /\ UNCHANGED offPage

setDescription ==
  /\ FormShown
  /\ \E v \in TypedDescriptions : page' = [page EXCEPT !.description = v]
  /\ UNCHANGED <<scan, expenses>>
  /\ UNCHANGED offPage

setCategoryId ==
  /\ FormShown
  /\ \E v \in {""} \cup IdSet(page.categories) : page' = [page EXCEPT !.categoryId = v]
  /\ UNCHANGED <<scan, expenses>>
  /\ UNCHANGED offPage

setAccountId ==
  /\ FormShown
  /\ \E v \in {""} \cup IdSet(page.accounts) : page' = [page EXCEPT !.accountId = v]
  /\ UNCHANGED <<scan, expenses>>
  /\ UNCHANGED offPage

(* lines 88-96: a file is picked; the input is disabled while busy *)
onPick ==
  /\ FormShown
  /\ ~scan.busy
  /\ scan' = [busy |-> TRUE, err |-> Null, draft |-> NoDraft, pc |-> "reading"]
  /\ UNCHANGED <<page, expenses>>
  /\ UNCHANGED offPage

(* lines 96-106 and 125-130: the file is read and the request sent, or the
   read fails *)
onPick_fileRead ==
  /\ Shown /\ scan.pc = "reading"
  /\ \E failed \in BOOLEAN :
       scan' = IF failed
                 THEN [scan EXCEPT !.err = Str("Could not read file"), !.busy = FALSE, !.pc = "idle"]
                 ELSE [scan EXCEPT !.pc = "fetching"]
  /\ UNCHANGED <<page, expenses>>
  /\ UNCHANGED offPage

(* a slip: setBusy(false) is the last statement of the try block, not in a
   finally block, so a scan that fails stays busy *)
onPick_answeredNoFinally ==
  /\ Shown /\ scan.pc = "fetching"
  /\ \E answer \in ParseAnswers :
       LET outcome == PickOutcome(answer)
       IN scan' = [busy |-> outcome.draft = NoDraft,
                   err |-> IF outcome.draft = NoDraft THEN outcome.err ELSE scan.err,
                   draft |-> IF outcome.draft = NoDraft THEN scan.draft ELSE outcome.draft,
                   pc |-> "idle"]
  /\ UNCHANGED <<page, expenses>>
  /\ UNCHANGED offPage

(* lines 108-130: the endpoint's answer arrives *)
onPick_answered ==
  /\ Shown /\ scan.pc = "fetching"
  /\ \E answer \in ParseAnswers :
       LET outcome == PickOutcome(answer)
       IN scan' = [busy |-> FALSE,
                   err |-> IF outcome.draft = NoDraft THEN outcome.err ELSE scan.err,
                   draft |-> IF outcome.draft = NoDraft THEN scan.draft ELSE outcome.draft,
                   pc |-> "idle"]
  /\ UNCHANGED <<page, expenses>>
  /\ UNCHANGED offPage

(* a slip: applying the draft also submits the form *)
onApplyDraftAndSave ==
  /\ FormShown
  /\ scan.draft # NoDraft
  /\ page' = [Applied(page, scan.draft) EXCEPT
                !.saving = TRUE, !.savePc = "inserting",
                !.payload = Payload(Applied(page, scan.draft))]
  /\ UNCHANGED <<scan, expenses>>
  /\ UNCHANGED offPage

(* lines 301-307, from the button of line 215 that is shown with a draft *)
onApplyDraft ==
  /\ FormShown
  /\ scan.draft # NoDraft
  /\ page' = Applied(page, scan.draft)
  /\ UNCHANGED <<scan, expenses>>
  /\ UNCHANGED offPage

(* lines 309-344: the form is submitted; the button is disabled while saving *)
onSave ==
  /\ FormShown
  /\ ~page.saving
  /\ page' = IF SaveRefusal(page) # ""
               THEN [page EXCEPT !.error = Str(SaveRefusal(page))]
               ELSE [page EXCEPT !.error = Null, !.saving = TRUE,
                                 !.savePc = "inserting", !.payload = Payload(page)]
  /\ UNCHANGED <<scan, expenses>>
  /\ UNCHANGED offPage

(* lines 344-352: the insert is answered *)
onSave_inserted ==
  /\ Shown /\ page.savePc = "inserting"
  /\ \E failed \in BOOLEAN :
       IF failed
         THEN /\ page' = [page EXCEPT !.error = Str("new row violates row-level security policy"),
                                      !.saving = FALSE, !.savePc = "idle", !.payload = NoPayload]
              /\ UNCHANGED <<scan, expenses>>
         ELSE /\ expenses' = Append(expenses, page.payload)
              /\ page' = Left("list")
              /\ scan' = ScanIdle
  /\ UNCHANGED offPage

(* sent to the login page, the user signs in and is brought back; a visit
   that ends with a saved row ends at the list *)
Visit ==
  /\ page.view = "login"
  /\ page' = Mounted
  /\ scan' = ScanIdle
  /\ UNCHANGED expenses
  /\ UNCHANGED offPage

PageNext ==
  \/ loadLists_getUser
  \/ loadLists_categories
  \/ loadLists_accounts
  \/ setAmount
  \/ setExpenseDate
  \/ setDescription
  \/ setCategoryId
  \/ setAccountId
  \/ onPick
  \/ onPick_fileRead
  \/ onPick_answered
  \/ onApplyDraft
  \/ onSave
  \/ onSave_inserted
  \/ Visit

SpecPage == PageInit /\ [][PageNext]_vars

(* the file read and the request to the endpoint settle: the FileReader calls
   onload or onerror, and fetch and res.json() resolve or reject *)
SpecPageFair ==
  /\ PageInit /\ [][PageNext]_vars
  /\ WF_vars(onPick_fileRead)
  /\ WF_vars(onPick_answered)

-----------------------------------------------------------------------------
(* Actions of the earlier new-expense page *)

AddInit ==
  /\ rev = "r002"
  /\ apiKey = TRUE
  /\ pc = "idle"
  /\ body = NoBody
  /\ outbound = 0
  /\ reply = NoReply
  /\ resp = NoResponse
  /\ ran = <<>>
  /\ modelText = Null
  /\ page = AddMounted
  /\ scan = ScanIdle
  /\ expenses = <<>>
  /\ calls = NoCalls
  /\ listPage = ListClosed
  /\ loads = <<>>
  /\ deletes = {}

(* what a step of the earlier page leaves alone *)
offAdd ==
  <<rev, apiKey, pc, body, outbound, reply, resp, ran, modelText,
    scan, calls, listPage, loads, deletes>>

AddOpen == page.view = "add"

(* line 146: the form is rendered once loading is false *)
AddFormShown == AddOpen /\ ~page.loading

(* lines 38-43: getUser of load is answered *)
Add_load_getUser ==
  /\ AddOpen /\ page.loadPc = "getUser"
  /\ \E signedIn \in BOOLEAN :
       page' = IF signedIn
                 THEN [page EXCEPT !.loadPc = "categories"]
                 ELSE [page EXCEPT !.loadPc = "done", !.loading = FALSE,
                         !.error = Str("You are not logged in. Please go to /auth/login and sign in.")]
  /\ UNCHANGED expenses
  /\ UNCHANGED offAdd

(* lines 49-58: the categories query is answered *)
Add_load_categories ==
  /\ AddOpen /\ page.loadPc = "categories"
  /\ \E failed \in BOOLEAN :
       page' = IF failed
                 THEN [page EXCEPT !.loadPc = "done", !.loading = FALSE,
                         !.error = Str("Could not load categories: permission denied")]
                 ELSE [page EXCEPT !.loadPc = "accounts"]
  /\ UNCHANGED expenses
  /\ UNCHANGED offAdd

(* lines 60-81: the accounts query is answered; the first category and the
   first account become the selected ones *)
Add_load_accounts ==
  /\ AddOpen /\ page.loadPc = "accounts"
  /\ \E failed \in BOOLEAN, cats \in {<<>>, CategoryRows}, accs \in {<<>>, AccountRows} :
       page' = IF failed
                 THEN [page EXCEPT !.loadPc = "done", !.loading = FALSE,
                         !.error = Str("Could not load accounts: permission denied")]
                 ELSE [page EXCEPT !.loadPc = "done", !.loading = FALSE,
                         !.categories = cats, !.accounts = accs,
                         !.categoryId = IF Len(cats) > 0 THEN cats[1].id ELSE @,
                         !.accountId = IF Len(accs) > 0 THEN accs[1].id ELSE @]
  /\ UNCHANGED expenses
  /\ UNCHANGED offAdd

(* line 185 *)
Add_setAmount ==
  /\ AddFormShown
  /\ \E v \in AddAmounts : page' = [page EXCEPT !.amount = v]
  /\ UNCHANGED expenses
  /\ UNCHANGED offAdd

(* line 198 *)
Add_setDescription ==
  /\ AddFormShown
  /\ \E v \in {"", "Lunch"} : page' = [page EXCEPT !.description = v]
  /\ UNCHANGED expenses
  /\ UNCHANGED offAdd

(* line 232: the date input is cleared *)
Add_setExpenseDate ==
  /\ AddFormShown
  /\ page' = [page EXCEPT !.expenseDate = ""]
  /\ UNCHANGED expenses
  /\ UNCHANGED offAdd

(* lines 89-107: the form is submitted; the button is disabled while saving.
   The values of the form are those of the render the handler closed over. *)
Add_onSave ==
  /\ AddFormShown
  /\ ~page.saving
  /\ Len(expenses) < MaxSaved
  /\ page' = IF AddRefusal(page) # ""
               THEN [page EXCEPT !.ok = Null, !.error = Str(AddRefusal(page))]
               ELSE [page EXCEPT !.ok = Null, !.error = Null, !.saving = TRUE,
                                 !.savePc = "getUser",
                                 !.payload = AddPayload(page, Null)]
  /\ UNCHANGED expenses
  /\ UNCHANGED offAdd

(* lines 109-126: getUser of onSave is answered *)
Add_onSave_getUser ==
  /\ AddOpen /\ page.savePc = "getUser"
  /\ \E signedIn \in BOOLEAN :
       page' = IF signedIn
                 THEN [page EXCEPT !.savePc = "inserting", !.payload.user_id = SignedIn]
                 ELSE [page EXCEPT !.savePc = "idle", !.saving = FALSE, !.payload = NoPayload,
                         !.error = Str("You are not logged in. Please go to /auth/login and sign in.")]
  /\ UNCHANGED expenses
  /\ UNCHANGED offAdd

(* lines 126-139: the insert is answered *)
Add_onSave_inserted ==
  /\ AddOpen /\ page.savePc = "inserting"
  /\ \E failed \in BOOLEAN :
       IF failed
         THEN /\ page' = [page EXCEPT !.savePc = "idle", !.saving = FALSE, !.payload = NoPayload,
                            !.error = Str("Could not save expense: permission denied")]
              /\ UNCHANGED expenses
         ELSE /\ expenses' = Append(expenses, page.payload)
              /\ page' = [page EXCEPT !.savePc = "idle", !.saving = FALSE, !.payload = NoPayload,
                            !.ok = Str("Saved"), !.amount = "", !.description = "",
                            !.expenseDate = Today]
  /\ UNCHANGED offAdd

AddNext ==
  \/ Add_load_getUser
  \/ Add_load_categories
  \/ Add_load_accounts
  \/ Add_setAmount
  \/ Add_setDescription
  \/ Add_setExpenseDate
  \/ Add_onSave
  \/ Add_onSave_getUser
  \/ Add_onSave_inserted

SpecAdd == AddInit /\ [][AddNext]_vars

-----------------------------------------------------------------------------
(* Actions of the expenses list page *)

ListInit ==
  /\ rev = "r002"
  /\ apiKey = TRUE
  /\ pc = "idle"
  /\ body = NoBody
  /\ outbound = 0
  /\ reply = NoReply
  /\ resp = NoResponse
  /\ ran = <<>>
  /\ modelText = Null
  /\ page = Mounted
  /\ scan = ScanIdle
  /\ expenses = ExpenseRows
  /\ calls = NoCalls
  /\ listPage = ListMounted
  /\ loads = <<LoadStarted(ListMounted.range)>>
  /\ deletes = {}

(* what a step of the list page leaves alone *)
offList ==
  <<rev, apiKey, pc, body, outbound, reply, resp, ran, modelText, page, scan, calls>>

(* line 478 and lines 327-332: the user picks another range; computedBounds
   changes, the load effect runs again and its load starts, the loads
   started before go on *)
setRange ==
  /\ listPage.open
  /\ Len(loads) < MaxLoads
  /\ \E r \in PickedRanges \ {listPage.range} :
       /\ listPage' = [listPage EXCEPT !.range = r, !.loading = TRUE, !.error = Null,
                                       !.openRowId = ""]
       /\ loads' = Append([i \in 1..Len(loads) |-> [loads[i] EXCEPT !.latest = FALSE]],
                          LoadStarted(r))
  /\ UNCHANGED <<expenses, deletes>>
  /\ UNCHANGED offList

(* lines 332-337: getUser of a load is answered *)
load_getUser ==
  /\ \E i \in 1..Len(loads) :
       /\ loads[i].pc = "getUser"
       /\ \E signedIn \in BOOLEAN :
            IF signedIn
              THEN /\ loads' = [loads EXCEPT ![i].pc = "categories"]
                   /\ UNCHANGED listPage
              ELSE /\ loads' = RemoveAt(loads, i)
                   /\ listPage' = LoadFailed(listPage,
                        "You are not logged in. Please go to /auth/login and sign in.")
  /\ UNCHANGED <<expenses, deletes>>
  /\ UNCHANGED offList

(* lines 339-346: the categories query of a load is answered *)
load_categories ==
  /\ \E i \in 1..Len(loads) :
       /\ loads[i].pc = "categories"
       /\ \E failed \in BOOLEAN :
            IF failed
              THEN /\ loads' = RemoveAt(loads, i)
                   /\ listPage' = LoadFailed(listPage, "Could not load categories: permission denied")
              ELSE /\ loads' = [loads EXCEPT ![i].pc = "accounts"]
                   /\ UNCHANGED listPage
  /\ UNCHANGED <<expenses, deletes>>
  /\ UNCHANGED offList

(* lines 348-366: the accounts query of a load is answered *)
load_accounts ==
  /\ \E i \in 1..Len(loads) :
       /\ loads[i].pc = "accounts"
       /\ \E failed \in BOOLEAN :
            IF failed
              THEN /\ loads' = RemoveAt(loads, i)
                   /\ listPage' = LoadFailed(listPage, "Could not load accounts: permission denied")
              ELSE /\ loads' = [loads EXCEPT ![i].pc = "expenses"]
                   /\ listPage' = [listPage EXCEPT !.categoryOptions = CategoryRows,
                                                   !.accounts = AccountRows]
  /\ UNCHANGED <<expenses, deletes>>
  /\ UNCHANGED offList

(* lines 368-394: the expenses query of a load, made with the bounds of the
   render that started the load, is answered *)
load_expenses ==
  /\ \E i \in 1..Len(loads) :
       /\ loads[i].pc = "expenses"
       /\ loads' = RemoveAt(loads, i)
       /\ \E failed \in BOOLEAN :
            listPage' = IF failed
                          THEN LoadFailed(listPage, "Could not load expenses: permission denied")
                          ELSE [listPage EXCEPT !.expenses = Queried(loads[i].range, expenses),
                                                !.loading = FALSE]
  /\ UNCHANGED <<expenses, deletes>>
  /\ UNCHANGED offList

(* lines 174-184: a rendered row is swiped past the threshold *)
onTouchEnd ==
  /\ \E i \in 1..Len(Displayed(listPage)) :
       /\ listPage.openRowId # Displayed(listPage)[i].id
       /\ listPage' = [listPage EXCEPT !.openRowId = Displayed(listPage)[i].id]
  /\ UNCHANGED <<expenses, loads, deletes>>
  /\ UNCHANGED offList

(* lines 202-206 and 439-442: Delete of the open row is pressed; the row is
   taken out of the list and the delete is sent with the list of this render *)
handleDelete ==
  /\ Cardinality(deletes) < MaxDeletes
  /\ \E i \in 1..Len(Displayed(listPage)) :
       LET id == Displayed(listPage)[i].id
       IN /\ listPage.openRowId = id
          /\ listPage' = [listPage EXCEPT !.expenses = Without(@, id)]
          /\ deletes' = deletes \cup {[id |-> id, prevAll |-> listPage.expenses]}
  /\ UNCHANGED <<expenses, loads>>
  /\ UNCHANGED offList

(* a slip: the list is rolled back and no message is set *)
deleteExpense_answeredQuiet ==
  /\ \E d \in deletes :
       /\ deletes' = deletes \ {d}
       /\ \E failed \in BOOLEAN :
            IF failed
              THEN /\ listPage' = [listPage EXCEPT !.expenses = d.prevAll, !.openRowId = ""]
                   /\ UNCHANGED expenses
              ELSE /\ expenses' = Without(expenses, d.id)
                   /\ listPage' = [listPage EXCEPT !.openRowId = ""]
  /\ UNCHANGED loads
  /\ UNCHANGED offList

(* lines 442-447 and 207-211: the delete is answered; a refused delete puts
   back the list of the render it was sent from *)
deleteExpense_answered ==
  /\ \E d \in deletes :
       /\ deletes' = deletes \ {d}
       /\ \E failed \in BOOLEAN :
            IF failed
              THEN /\ listPage' = [listPage EXCEPT !.expenses = d.prevAll,
                                     !.error = Str("Could not delete expense: permission denied"),
                                     !.openRowId = ""]
                   /\ UNCHANGED expenses
              ELSE /\ expenses' = Without(expenses, d.id)
                   /\ listPage' = [listPage EXCEPT !.openRowId = ""]
  /\ UNCHANGED loads
  /\ UNCHANGED offList

ListNext ==
  \/ setRange
  \/ load_getUser
  \/ load_categories
  \/ load_accounts
  \/ load_expenses
  \/ onTouchEnd
  \/ handleDelete
  \/ deleteExpense_answered

SpecList == ListInit /\ [][ListNext]_vars

-----------------------------------------------------------------------------
(* Actions of two invocations at once *)

PairInit ==
  /\ rev \in Revisions
  /\ apiKey \in BOOLEAN
  /\ pc = "idle"
  /\ body = NoBody
  /\ outbound = 0
  /\ reply = NoReply
  /\ resp = NoResponse
  /\ ran = <<>>
  /\ modelText = Null
  /\ page = Mounted
  /\ scan = ScanIdle
  /\ expenses = <<>>
  /\ calls = NoCalls
  /\ listPage = ListClosed
  /\ loads = <<>>
  /\ deletes = {}

(* what a step of the two invocations leaves alone *)
offPair ==
  <<rev, apiKey, pc, body, outbound, reply, resp, ran, modelText,
    page, scan, expenses, listPage, loads, deletes>>

(* a client posts a body; the invocation in slot i begins *)
Pair_Request(i) ==
  /\ calls[i].pc = "idle"
  /\ \E b \in PairBodies :
       calls' = [calls EXCEPT ![i] = [@ EXCEPT !.body = b, !.pc = "received"]]
  /\ UNCHANGED offPair

(* invocation i runs up to the provider call, or ends before it *)
Pair_Start(i) ==
  /\ calls[i].pc = "received"
  /\ LET step == StartOf(rev, apiKey, HeldBody(calls, i))
     IN calls' = [calls EXCEPT ![i] =
                    [@ EXCEPT !.ran = step.ran,
                              !.resp = step.resp,
                              !.pc = IF step.done THEN "done" ELSE "awaiting",
                              !.outbound = IF step.done THEN @ ELSE @ + 1]]
  /\ UNCHANGED offPair

(* the provider answers the request of invocation i *)
Pair_ProviderReply(i) ==
  /\ calls[i].pc = "awaiting"
  /\ \E answer \in PairReplies :
       calls' = [calls EXCEPT ![i] = [@ EXCEPT !.reply = answer, !.pc = "replied"]]
  /\ UNCHANGED offPair

(* part_001: the client of invocation i sends its request again *)
Pair_Retry(i) ==
  /\ rev = "r001"
  /\ calls[i].pc = "replied"
  /\ Retryable(calls[i].reply) /\ calls[i].outbound < 1 + ClientMaxRetries
  /\ calls' = [calls EXCEPT ![i] = [@ EXCEPT !.outbound = @ + 1, !.pc = "awaiting"]]
  /\ UNCHANGED offPair

(* invocation i runs from the provider's answer to its response *)
Pair_Finish(i) ==
  /\ calls[i].pc = "replied"
  /\ ~(rev = "r001" /\ Retryable(calls[i].reply) /\ calls[i].outbound < 1 + ClientMaxRetries)
  /\ LET step == FinishOf(rev, HeldBody(calls, i), calls[i].reply)
     IN calls' = [calls EXCEPT ![i] =
                    [@ EXCEPT !.ran = @ \o step.ran,
                              !.resp = step.resp,
                              !.modelText = step.text,
                              !.pc = "done"]]
  /\ UNCHANGED offPair

(* the response of invocation i is sent; its slot takes the next request *)
Pair_Respond(i) ==
  /\ calls[i].pc = "done"
  /\ calls' = [calls EXCEPT ![i] = IdleCall]
  /\ UNCHANGED offPair

PairNext ==
  \/ \E i \in Calls : Pair_Request(i)
  \/ \E i \in Calls : Pair_Start(i)
  \/ \E i \in Calls : Pair_ProviderReply(i)
  \/ \E i \in Calls : Pair_Retry(i)
  \/ \E i \in Calls : Pair_Finish(i)
  \/ \E i \in Calls : Pair_Respond(i)

SpecPair == PairInit /\ [][PairNext]_vars

-----------------------------------------------------------------------------
(* Properties of the endpoint *)

(* the call has been answered with a draft *)
DraftReturned == pc = "done" /\ resp.hasDraft

(* the model's text was its JSON object, and the draft was made from it *)
DraftFromObject ==
  /\ DraftReturned
  /\ reply.kind = "ok"
  /\ reply.data \in {FlatData(DraftText), BlockData}

(* the ids of the entries of the lists sent in the request *)
SentCategoryIds == IF body.categories.t = "array" THEN IdSet(body.categories.items) ELSE {}
SentAccountIds == IF body.accounts.t = "array" THEN IdSet(body.accounts.items) ELSE {}

(* C1: a returned draft's category_id is null or the id of an entry of the
   categories sent in the same request, whatever the model wrote. *)
C1_CategoryIdInList ==
  DraftReturned =>
    \/ resp.draft.category_id = Null
    \/ resp.draft.category_id.t = "string" /\ resp.draft.category_id.s \in SentCategoryIds

(* C2: a returned draft's account_id is null or the id of an entry of the
   accounts sent in the same request, whatever the model wrote. *)
C2_AccountIdInList ==
  DraftReturned =>
    \/ resp.draft.account_id = Null
    \/ resp.draft.account_id.t = "string" /\ resp.draft.account_id.s \in SentAccountIds

(* C3: a returned draft's amount is null or a whole number from 0 to 500000. *)
C3_AmountWholeInRange ==
  DraftReturned =>
    \/ resp.draft.amount = Null
    \/ /\ IsFinite(resp.draft.amount)
       /\ resp.draft.amount.n % 10 = 0
       /\ resp.draft.amount.n >= 0
       /\ resp.draft.amount.n <= AmountCap * 10

(* four digits, hyphen, two digits, hyphen, two digits *)
LooksLikeYMD(s) ==
  /\ Len(s) = 10
  /\ \A i \in 1..10 :
       IF i \in {5, 8} THEN SubSeq(s, i, i) = "-" ELSE SubSeq(s, i, i) \in Digit

(* C4: a returned draft's expense_date is null or a string of the form
   YYYY-MM-DD; any other string the model wrote is replaced by null. *)
C4_DateIsYMD ==
  DraftReturned =>
    \/ resp.draft.expense_date = Null
    \/ resp.draft.expense_date.t = "string" /\ LooksLikeYMD(resp.draft.expense_date.s)

(* C5: a returned draft's confidence is one of high, medium, low, and it is
   low when the model's confidence is absent or any other value. *)
C5_ConfidenceIsLevel ==
  DraftReturned =>
    /\ resp.draft.confidence \in {"high", "medium", "low"}
    /\ (reply.obj.confidence \notin {Str("high"), Str("medium"), Str("low")}
          => resp.draft.confidence = "low")

C5_Witness ==
  /\ DraftFromObject
  /\ reply.obj.confidence = Str("certain")
  /\ resp.draft.confidence = "low"

(* the model's object came as the flat output_text, which every revision reads *)
ObjectAnswered ==
  /\ pc = "done"
  /\ reply.kind = "ok"
  /\ reply.data = FlatData(DraftText)

HasWarning(draft, texts) == \E i \in 1..Len(draft.warnings) : draft.warnings[i] \in texts

(* the model wrote a non-null id that is not the id of an entry sent *)
OutOfList(id, sent) == id \notin {Null, Undefined} /\ ~(id.t = "string" /\ id.s \in sent)

(* C6: when the model writes a non-null category_id (or account_id) that is
   not in the request's id set, the call still answers 200 with a draft, the
   field is null in it, a guardrail warning for it is among the warnings and
   the confidence is low. *)
C6_OutOfListIdCorrected ==
  /\ ObjectAnswered /\ OutOfList(reply.obj.category_id, SentCategoryIds)
       => /\ resp.status = 200 /\ resp.hasDraft
          /\ resp.draft.category_id = Null
          /\ HasWarning(resp.draft, {CategoryWarning000, CategoryWarning002})
          /\ resp.draft.confidence = "low"
  /\ ObjectAnswered /\ OutOfList(reply.obj.account_id, SentAccountIds)
       => /\ resp.status = 200 /\ resp.hasDraft
          /\ resp.draft.account_id = Null
          /\ HasWarning(resp.draft, {AccountWarning000, AccountWarning002})
          /\ resp.draft.confidence = "low"

(* low < medium < high; a missing or unrecognised value counts as low *)
ConfidenceRank(level) ==
  IF level = "high" THEN 2 ELSE IF level = "medium" THEN 1 ELSE 0

ReportedRank(v) == IF v.t = "string" THEN ConfidenceRank(v.s) ELSE 0

(* C7: the returned confidence is never higher than the confidence the model
   reported; normalization and the guardrail may lower it, never raise it. *)
C7_ConfidenceNeverRaised ==
  DraftReturned => ConfidenceRank(resp.draft.confidence) <= ReportedRank(reply.obj.confidence)

C7_Witness ==
  /\ DraftFromObject
  /\ reply.obj.confidence = Str("high")
  /\ resp.draft.confidence = "low"
  /\ HasWarning(resp.draft, {CategoryWarning000, CategoryWarning002})

(* a returned draft, read again as the object a model wrote *)
AsObject(draft) ==
  [amount |-> draft.amount, expense_date |-> draft.expense_date,
   description |-> draft.description, category_id |-> draft.category_id,
   account_id |-> draft.account_id, confidence |-> Str(draft.confidence),
   warnings |-> Arr([i \in 1..Len(draft.warnings) |-> Str(draft.warnings[i])])]

(* the deployed revision's normalization, run on the returned draft with the
   lists of the same request *)
Renormalized ==
  LET x == AsObject(resp.draft)
  IN Serialize(CASE rev = "r000" -> Normalize000(x, body)
                 [] rev = "r001" -> normalizeDraft(x)
                 [] rev = "r002" -> Normalize002(x, body))

(* C8: normalizing a returned draft again, with the same lists, gives a draft
   equal in every field, the warnings list included. *)
C8_NormalizationIdempotent == DraftReturned => Renormalized = resp.draft

C8_Witness ==
  /\ DraftFromObject
  /\ Len(resp.draft.warnings) >= 2
  /\ reply.obj.category_id # resp.draft.category_id
  /\ Renormalized = resp.draft

(* C9: a numeric amount that is negative, not finite or above 500000 gives a
   null amount and an amount warning; a numeric amount within 0..500000 is
   returned rounded to the nearest whole unit without an amount warning; an
   amount that is not a number gives null. *)
C9_AmountRule ==
  ObjectAnswered /\ resp.hasDraft =>
    LET a == reply.obj.amount
        r == resp.draft.amount
        warned == HasWarning(resp.draft, {AmountWarning})
    IN IF a.t # "number" THEN r = Null
       ELSE IF ~IsFinite(a) \/ a.n < 0 \/ a.n > AmountCap * 10 THEN r = Null /\ warned
       ELSE /\ IsFinite(r)
            /\ r.n % 10 = 0
            /\ r.n - a.n \in -5..5
            /\ ~warned

(* the request's imageDataUrl is missing, not a string, or lacks the prefix *)
BadImageUrl ==
  \/ body.imageDataUrl.t # "string"
  \/ ~startsWith(body.imageDataUrl.s, ImagePrefix)

(* C10: with the credential configured, a request body whose imageDataUrl is
   missing, not a string or does not begin with data:image/ is answered 400
   with an error, and no request goes to the provider during that call. *)
C10_BadImageRejected ==
  apiKey /\ body.json /\ body.rec /\ BadImageUrl /\ pc # "received"
    => /\ pc = "done"
       /\ resp.status = 400 /\ resp.error # "" /\ ~resp.hasDraft
       /\ outbound = 0

(* the text sub occurs in the text s *)
Contains(s, sub) ==
  \E i \in 1..(Len(s) - Len(sub) + 1) : SubSeq(s, i, i + Len(sub) - 1) = sub

Stages(seq) == {seq[i] : i \in 1..Len(seq)}

LaterStages == {"extract", "parse", "shape", "normalize", "guardrail"}

(* the provider answered the call with a non-success status *)
UpstreamRefused == pc = "done" /\ reply.kind = "http_error"

(* C11: when the provider answers with a non-success status the endpoint
   answers 500, the error carries the upstream text, there is no draft, and
   text extraction, JSON parse and normalization do not run. *)
C11_UpstreamErrorSurfaced ==
  UpstreamRefused =>
    /\ resp.status = 500
    /\ Contains(resp.error, reply.errText)
    /\ ~resp.hasDraft
    /\ Stages(ran) \cap LaterStages = {}
    /\ modelText = Null

C11_Witness ==
  /\ UpstreamRefused
  /\ resp.error = "OpenAI error: rate limited"
  /\ ran = <<"credential", "body", "validate", "prompt", "fetch">>

(* the steps every revision takes before it answers with a draft *)
StepsToDraft == {"body", "validate", "credential", "prompt", "fetch", "extract", "parse", "normalize"}

Success ==
  /\ resp.status = 200
  /\ resp.hasDraft
  /\ resp.error = ""
  /\ reply.kind = "ok"
  /\ StepsToDraft \subseteq Stages(ran)

Failure ==
  /\ resp.status \notin {0, 200}
  /\ resp.error # ""
  /\ ~resp.hasDraft
  /\ resp.draft = NoDraft
  /\ "normalize" \notin Stages(ran)

(* C12: a call ends in exactly one of two outcomes, a 200 response with a
   draft and no error after every step has run, or a non-200 response with an
   error and no draft; nothing of a draft is returned by a call that failed,
   and nothing is answered before the call ends. *)
C12_TerminalOutcomes ==
  /\ pc = "done" => (Success \/ Failure) /\ ~(Success /\ Failure)
  /\ pc # "done" => resp = NoResponse

(* a call that failed at the JSON parse, after the provider answered *)
C12_Witness ==
  /\ pc = "done"
  /\ Failure
  /\ reply.kind = "ok"
  /\ ran[Len(ran)] = "parse"

(* the call ended on a server that has no OPENAI_API_KEY *)
EndedWithoutKey == pc = "done" /\ ~apiKey

(* C13: when the API key is absent the endpoint answers 500 with a message
   that names the missing configuration, sends no request to the provider, and
   goes on to take the next request. *)
C13_MissingKeyIs500 ==
  EndedWithoutKey =>
    /\ resp.status = 500
    /\ Contains(resp.error, "OPENAI_API_KEY")
    /\ outbound = 0
    /\ ~resp.hasDraft
    /\ ENABLED Respond

(* the key is set and the body carries a data:image/ URL in a string *)
ChecksPass ==
  /\ apiKey
  /\ body.json /\ body.rec
  /\ body.imageDataUrl.t = "string"
  /\ startsWith(body.imageDataUrl.s, ImagePrefix)

(* C14: a call sends at most one request to the provider, exactly one when
   the credential check and the input validation pass, and none after a
   failed or non-success answer. *)
C14_OneProviderRequest ==
  /\ outbound <= 1
  /\ pc = "done" /\ ChecksPass => outbound = 1

-----------------------------------------------------------------------------
(* Properties of the new-expense page *)

(* the step sends an insert to the expenses table *)
IssuesInsert == page.savePc # "inserting" /\ page'.savePc = "inserting"

(* the step changes the rows of the expenses table *)
RowAdded == expenses' # expenses

(* a step of the scanner, or the step that applies its draft to the form *)
ScanOrApply == onPick \/ onPick_fileRead \/ onPick_answered \/ onApplyDraft

(* C15: scanning receipts and applying drafts never issue an insert into the
   expenses table and never add a row; an insert is issued only by a step of
   onSave, and a row is added only when that insert is answered. *)
C15_InsertOnlyOnSave ==
  [][/\ ScanOrApply => ~IssuesInsert /\ ~RowAdded
     /\ IssuesInsert => onSave
     /\ RowAdded => onSave_inserted /\ expenses' = Append(expenses, page.payload)]_vars

(* a scanned draft is applied to the form and nothing has been sent or saved *)
C15_Witness ==
  /\ scan.draft = FullDraft
  /\ page.amount = "1250.5"
  /\ page.expenseDate = "2024-01-15"
  /\ page.accountId = "a1"
  /\ page.savePc = "idle"
  /\ expenses = <<>>

ScanRunning == scan.pc \in {"reading", "fetching"}

(* the step begins a scan *)
ScanStarts == ~ScanRunning /\ scan'.pc = "reading"

(* the step ends a scan on a page that stays open *)
ScanEnds == ScanRunning /\ scan'.pc = "idle" /\ page'.view = "new"

(* C28: a scan starts only while busy is false and clears draft and error;
   never are both a draft and an error set; the step that ends a scan resets
   busy and leaves exactly one of draft and error set; and every scan that
   is busy is at some later time not busy. *)
C28_ScannerBusy ==
  /\ [](~(scan.draft # NoDraft /\ scan.err # Null))
  /\ [](ScanRunning => scan.busy /\ scan.draft = NoDraft /\ scan.err = Null)
  /\ [][ScanStarts => ~scan.busy]_vars
  /\ [][ScanEnds => ~scan'.busy /\ ((scan'.draft # NoDraft) # (scan'.err # Null))]_vars
  /\ (scan.busy ~> ~scan.busy)

(* a scan has ended with an error status of the endpoint and is not busy *)
C28_Witness ==
  /\ scan.pc = "idle"
  /\ ~scan.busy
  /\ scan.err = Str("imageDataUrl is required")
  /\ scan.draft = NoDraft

(* a value of a draft that is neither null nor empty *)
Filled(v) == v.t = "number" \/ (v.t = "string" /\ v.s # "")

(* the five form fields of the page *)
FormOf(p) ==
  [amount |-> p.amount, expenseDate |-> p.expenseDate, description |-> p.description,
   categoryId |-> p.categoryId, accountId |-> p.accountId]

(* C29: the step that applies a draft sets each of amount, date, description,
   category and account from the draft when the draft's value is neither
   null nor empty and leaves it as it was otherwise; nothing but these five
   fields changes. *)
C29_ApplyFrame ==
  [][onApplyDraft =>
       LET d == scan.draft
       IN /\ page'.amount = IF Filled(d.amount) THEN String(d.amount) ELSE page.amount
          /\ page'.expenseDate = IF Filled(d.expense_date) THEN d.expense_date.s ELSE page.expenseDate
          /\ page'.description = IF Filled(d.description) THEN d.description.s ELSE page.description
          /\ page'.categoryId = IF Filled(d.category_id) THEN d.category_id.s ELSE page.categoryId
          /\ page'.accountId = IF Filled(d.account_id) THEN d.account_id.s ELSE page.accountId
          /\ \A f \in DOMAIN page \ DOMAIN FormOf(page) : page'[f] = page[f]
          /\ scan' = scan
          /\ expenses' = expenses]_vars

(* the draft of empty texts was applied over a form the user had filled:
   amount and account come from the draft, the other fields are kept *)
C29_Witness ==
  /\ scan.draft = EmptyDraft
  /\ page.amount = "0"
  /\ page.accountId = "a1"
  /\ page.description = " Lunch "
  /\ page.categoryId = "c1"
  /\ page.expenseDate = Today

(* a step that runs checks of a save attempt *)
SaveChecks == onSave \/ Add_onSave \/ Add_onSave_getUser

(* the attempt ended at a check: nothing is left in flight *)
SaveRefused == SaveChecks /\ page'.savePc = "idle"

(* the insert of a save attempt is answered *)
InsertAnswered == page.savePc = "inserting" /\ page'.savePc # "inserting"

(* C30: a save issues an insert only for a known user, an amount that is a
   finite number above 0, a date and an account; an attempt that fails a
   check shows an error and issues no insert; once the insert is answered,
   with the row or with an error, saving is false. *)
C30_SaveChecked ==
  /\ [][IssuesInsert =>
          /\ Truthy(page'.payload.user_id)
          /\ IsFinite(page'.payload.amount) /\ page'.payload.amount.n > 0
          /\ page'.payload.expense_date # ""
          /\ page'.payload.account_id # ""]_vars
  /\ [][SaveRefused => page'.error # Null /\ ~IssuesInsert]_vars
  /\ [][InsertAnswered => ~page'.saving]_vars

-----------------------------------------------------------------------------
(* Further properties of the endpoint *)

CategoriesNotAList == body.json /\ body.rec /\ body.categories.t # "array"
AccountsNotAList == body.json /\ body.rec /\ body.accounts.t # "array"

(* C16: when categories or accounts is absent or is not a list the call does
   not fail for it (it gets as far as the provider when the checks pass), and
   the draft it returns has a null id for that list. *)
C16_MalformedListIsEmpty ==
  /\ pc = "done" /\ ChecksPass /\ (CategoriesNotAList \/ AccountsNotAList) => outbound >= 1
  /\ DraftReturned /\ CategoriesNotAList => resp.draft.category_id = Null
  /\ DraftReturned /\ AccountsNotAList => resp.draft.account_id = Null

(* the readable text of a provider answer as C17 states it; "" is no text *)
StatedText(data) ==
  IF ~data.rec THEN ""
  ELSE IF data.output_text.t = "string" /\ trim(data.output_text.s) # ""
    THEN trim(data.output_text.s)
  ELSE IF ~data.outputIsArray THEN ""
  ELSE LET all == FlattenContent(data.output)
           kept == SelectSeq(all, LAMBDA c : /\ c.type \in {"output_text", "summary_text"}
                                             /\ c.text.t = "string"
                                             /\ trim(c.text.s) # "")
       IN JoinStrings([i \in 1..Len(kept) |-> trim(kept[i].text.s)], "\n")

(* the text the call read from the answer, "" when it read none *)
TextRead == IF modelText.t = "string" THEN trim(modelText.s) ELSE ""

(* the provider answered with a success status and the call read the answer *)
AnswerRead == pc = "done" /\ reply.kind = "ok"

(* C17: the text read from a provider answer is its output_text field when
   that is a string that is not blank, else the trimmed texts of its blocks of
   type output_text or summary_text, in order, joined by newlines; an answer
   of another shape gives no text. *)
C17_ReadableText == AnswerRead => TextRead = StatedText(reply.data)

(* the call read the provider's answer and found no text in it *)
NoTextRead == AnswerRead /\ TextRead = ""

ReceivedKeys == {reply.data.keys[i] : i \in 1..Len(reply.data.keys)}

(* C18: when no readable text is found the call ends 500 with no draft, and
   the message names the top-level fields of the answer received and none of
   their values. *)
C18_NoTextNamesFields ==
  NoTextRead =>
    /\ resp.status = 500
    /\ ~resp.hasDraft
    /\ \A key \in ReceivedKeys : Contains(resp.error, key)
    /\ \A key \in ReceivedKeys : FieldValue(key) # "" => ~Contains(resp.error, FieldValue(key))

(* the call read a text that JSON.parse does not accept *)
TextNotJSON == AnswerRead /\ TextRead # "" /\ ~JSONparse(TextRead, reply.obj).ok

(* everything textual the response carries *)
Carried == resp.error \o resp.raw

(* C19: when the text read is not valid JSON the call fails with no draft,
   and its response carries no more than the first 300 characters of the
   text: never 301 characters of it, so never a longer text in full. *)
C19_EchoIsTruncated ==
  TextNotJSON =>
    /\ resp.status # 200
    /\ ~resp.hasDraft
    /\ Len(TextRead) > EchoLimit => ~Contains(Carried, slice(TextRead, EchoLimit + 1))

(* the text read is JSON, of a value that is not an object *)
JSONNotObject ==
  /\ AnswerRead
  /\ TextRead # ""
  /\ JSONparse(TextRead, reply.obj).ok
  /\ JSONparse(TextRead, reply.obj).kind # "object"

(* C20: when the text read parses as JSON but is an array, a number, a
   string, a boolean or null, the call ends 500 and returns no draft. *)
C20_NonObjectRejected == JSONNotObject => resp.status = 500 /\ ~resp.hasDraft

(* the warnings the model wrote, as C21 states them: the items of a list,
   each as a string, in the model's order; none when it wrote no list *)
StatedModelWarnings ==
  IF reply.obj.warnings.t = "array"
  THEN [i \in 1..Len(reply.obj.warnings.a) |-> String(reply.obj.warnings.a[i])]
  ELSE <<>>

(* the warnings normalization and the guardrails write *)
GeneratedWarnings ==
  {AmountWarning, DateWarning, CategoryWarning000, AccountWarning000,
   CategoryWarning002, AccountWarning002}

(* C21: the warnings of a returned draft are the model's warnings, every item
   as a string and in the model's order, followed by warnings generated by
   the call; no warning of the model is dropped. *)
C21_WarningsKept ==
  DraftFromObject =>
    LET w == resp.draft.warnings
        m == StatedModelWarnings
    IN /\ Len(w) >= Len(m)
       /\ SubSeq(w, 1, Len(m)) = m
       /\ \A i \in (Len(m) + 1)..Len(w) : w[i] \in GeneratedWarnings

(* C22: the description of a returned draft is null or a string that is not
   empty and has no whitespace at either end. *)
C22_DescriptionTrimmed ==
  DraftReturned =>
    \/ resp.draft.description = Null
    \/ /\ resp.draft.description.t = "string"
       /\ resp.draft.description.s # ""
       /\ trim(resp.draft.description.s) = resp.draft.description.s

(* C24: the credential check comes before the body is read: without the key
   every request, whatever its body, is answered 500 and nothing else of the
   handler has run. *)
C24_CredentialBeforeBody ==
  EndedWithoutKey => resp.status = 500 /\ ran = <<"credential">>

(* the draft of the model's object as it stands before the guardrail *)
BeforeGuardrail ==
  Serialize(IF rev = "r001" THEN normalizeDraft(reply.obj) ELSE BuildDraft(reply.obj))

(* a non-null id that is not the id of an entry sent *)
IdOutOfList(id, sent) == id # Null /\ id.s \notin sent

(* C25: the guardrail leaves amount, expense_date and description alone,
   returns an id that is in the request's list unchanged, appends exactly one
   warning for each id that is not (category before account) and none
   otherwise, and changes the confidence only when an id is out of the list. *)
C25_GuardrailFrame ==
  DraftFromObject =>
    LET n == BeforeGuardrail
        d == resp.draft
        catOut == IdOutOfList(n.category_id, SentCategoryIds)
        accOut == IdOutOfList(n.account_id, SentAccountIds)
        added == (IF catOut THEN <<{CategoryWarning000, CategoryWarning002}>> ELSE <<>>)
                   \o (IF accOut THEN <<{AccountWarning000, AccountWarning002}>> ELSE <<>>)
    IN /\ d.amount = n.amount
       /\ d.expense_date = n.expense_date
       /\ d.description = n.description
       /\ ~catOut => d.category_id = n.category_id
       /\ ~accOut => d.account_id = n.account_id
       /\ ~catOut /\ ~accOut => d.confidence = n.confidence
       /\ Len(d.warnings) = Len(n.warnings) + Len(added)
       /\ SubSeq(d.warnings, 1, Len(n.warnings)) = n.warnings
       /\ \A i \in 1..Len(added) : d.warnings[Len(n.warnings) + i] \in added[i]

-----------------------------------------------------------------------------
(* Properties of the expenses list page *)

(* the row is among the rows the page renders *)
RowShown(id) == \E i \in 1..Len(Displayed(listPage)) : Displayed(listPage)[i].id = id

(* the row is in the expenses table *)
OnServer(id) == \E i \in 1..Len(expenses) : expenses[i].id = id

(* the row is in the list the page holds, rendered or not *)
RowHeld(id) == \E i \in 1..Len(listPage.expenses) : listPage.expenses[i].id = id

(* C26: a row whose delete has succeeded on the server and that the page
   does not render is not rendered after any step of the page, whatever
   deletes are in flight and whichever of them are refused and roll the
   list back. *)
C26_DeletedStaysGone ==
  [][\A id \in RowIds : ~OnServer(id) /\ ~RowShown(id) => ~RowShown(id)']_vars

(* the delete of e1 succeeded and a refused delete of e2, sent from a render
   that still had e1, rolled the list back: the list holds e1 again and the
   page renders the message of the refused delete in place of the rows *)
C26_Witness ==
  /\ ~OnServer("e1")
  /\ RowHeld("e1")
  /\ listPage.error = Str("Could not delete expense: permission denied")
  /\ ~RowShown("e1")

(* the step ends the last load in flight without an error *)
LoadsFinished == loads # <<>> /\ loads' = <<>> /\ listPage'.error = Null

(* C27: when the last of the loads in flight finishes, the page holds the
   rows of the range that is selected, in whatever order the loads were
   answered; and loading is false only when the load started last is no
   longer in flight. *)
C27_LatestRangeShown ==
  /\ [][LoadsFinished => listPage'.expenses = Queried(listPage'.range, expenses')]_vars
  /\ [](~listPage.loading => \A i \in 1..Len(loads) : ~loads[i].latest)

-----------------------------------------------------------------------------
(* Properties of two invocations at once *)

(* the response of a call that runs alone, from its own request and the
   answer the provider gave it *)
Alone(r, key, b, answer) ==
  IF StartOf(r, key, b).done THEN StartOf(r, key, b).resp ELSE FinishOf(r, b, answer).resp

(* C23: whatever the interleaving of the steps of two calls, a call that has
   ended has the response it would have alone: the response is a function of
   its own request and its own provider answer, and so its ids were checked
   against the lists of its own request. *)
C23_CallsIndependent ==
  \A i \in Calls :
    calls[i].pc = "done" =>
      calls[i].resp = Alone(rev, apiKey, calls[i].body, calls[i].reply)

(* a call keeps an id of its own list while a call with other lists, which
   do not hold that id, is in flight *)
C23_Witness ==
  /\ calls[1].pc = "done"
  /\ calls[1].body.categories = SomeCategories
  /\ calls[1].resp.hasDraft
  /\ calls[1].resp.draft.category_id = Str("c1")
  /\ calls[2].pc = "replied"
  /\ calls[2].body.categories = OtherCategories
  /\ rev = "r002"

=============================================================================
